---- MODULE Spec2Model ----
(***************************************************************************)
(* Model of package worker (src/worker/worker.go): the worker pool of the  *)
(* content-discovery scanner.  A supervisor (StartWorkers) creates the     *)
(* workers; each worker runs the select loop of Run, and handles each      *)
(* dequeued URL with HandleURL / TryMangleURL / TryURL.                    *)
(*                                                                         *)
(* A URL is modelled by its path, a sequence of one-character strings.     *)
(* The HTTP client, the work queue, package util and the HTML worker are   *)
(* not part of worker.go: they are modelled at their interface.            *)
(***************************************************************************)
EXTENDS Integers, Sequences, FiniteSets, TLC

\* ------------------------------------------------------------------ bounds
MaxTasks == 2       \* URLs the Work Source hands out in one run
MaxExt == 2         \* longest settings.Extensions explored
MaxStops == 1       \* Stop() calls made on the handles in one run
MaxQueue == 2       \* URLs the Work Source's queue holds at one time

\* ------------------------------------------------------------ small values
NoURL == << >>      \* a nil *url.URL / nil *http.Request

\* The URLs the Work Source hands out: a file without extension in a
\* directory, a file with an extension, a directory, and two paths without
\* "/" (without and with an extension).
TaskURLs ==
  { <<"/", "d", "/", "a">>, <<"/", "a", ".", "p">>, <<"/", "d", "/">>, <<"a">>,
    <<"a", ".", "p">> }

\* Where the server may redirect to (a directory that is also a task).
RedirTargets == { <<"/", "d", "/">> }

\* Extensions that may be configured, in their configured order.
ExtPool == << <<"p">>, <<"q">>, <<"r">> >>

\* How many links the Page Link Extractor finds in a body.
LinkCounts == {0, 1}

OkCodes == {200, 404}      \* status codes of a response that is no redirect
RedirCodes == {301, 302}   \* status codes of a redirect response
\* settings.SpiderCodes as configured: one code of each kind is spiderable.
SpiderCodes == {200, 301}

VARIABLES
  settings,      \* *ss.ScanSettings, read-only after start
  factory,       \* the client.ClientFactory given to StartWorkers: "std" if
                 \*   its clients return the redirect response with every
                 \*   redirect they hand to the handler, "bare" if they may
                 \*   return no response with it
  supI,          \* StartWorkers: loop index i (1-based)
  supPhase,      \* StartWorkers: "new" (lines 221-222) or "attach" (223-225)
  pc,            \* per worker: position of its goroutine
  task,          \* per worker: the URL HandleURL is handling
  mq,            \* per worker: candidates TryMangleURL's loop still has to try
  ctx,           \* per worker: which call of TryMangleURL is running
  extI,          \* per worker: index of the extension loop of HandleURL
  redir,         \* per worker: w.redir (URL of the captured request)
  pageWorker,    \* per worker: w.pageWorker # nil
  srcClosed,     \* the Work Source's stream (w.src) has been closed
  stopBlocked,   \* per worker: Stop() calls blocked in w.stop <- true
  stopReturned,  \* per worker: Stop() calls that have returned
  dequeued,      \* URLs received from src by the pool
  doneTotal,     \* calls of done(1) by the pool
  attempts,      \* per worker: the TryURL calls made for the current task
  rawOK,         \* per worker: the raw attempt of the current task took the
                 \*   response path and got a spiderable status
  parentOK,      \* per worker, while TryMangleURL runs: the attempt of the URL
                 \*   it mangles took the response path and got a spiderable
                 \*   status
  sent,          \* per worker: Result Records it sent on rchan for the
                 \*   current task
  queued,        \* the Work Source: URLs enqueued and not yet dequeued; the
                 \*   scan starts with one URL enqueued
  counter,       \* the Work Source: its completion counter, plus one per
                 \*   enqueue, minus n per done(n)
  last           \* the call of TryURL made by the step that led to this
                 \*   state, if that step made one

vars == << settings, factory, supI, supPhase, pc, task, mq, ctx, extI, redir, pageWorker,
           srcClosed, stopBlocked, stopReturned, dequeued, doneTotal,
           attempts, rawOK, parentOK, sent, queued, counter, last >>

\* The workers StartWorkers can create: workers[0] and workers[1].
WorkerIds == {1, 2}

\* ------------------------------------------------------------ pure helpers

\* strings.LastIndex(s, c), 1-based; 0 stands for Go's -1.
LastIndex(s, c) ==
  LET hits == { j \in 1..Len(s) : s[j] = c }
  IN IF hits = {} THEN 0 ELSE CHOOSE j \in hits : \A h \in hits : h <= j

\* util.URLIsDir: the path ends in "/".
URLIsDir(u) == Len(u) > 0 /\ u[Len(u)] = "/"

\* util.URLHasExtension: the basename of the path carries a ".".
URLHasExtension(u) == LastIndex(u, ".") > LastIndex(u, "/")

Mangle_swapsBackupRules(basename) ==
  << <<".">> \o basename \o <<".", "s", "w", "p">>,
     basename \o <<".", "b", "a", "k">>,
     basename \o <<"~">>,
     basename \o <<".", "o", "r", "i", "g">> >>

\* Mangle: the four format rules applied to the basename, in order.
Mangle(basename) ==
  << <<".">> \o basename \o <<".", "s", "w", "p">>,
     basename \o <<"~">>,
     basename \o <<".", "b", "a", "k">>,
     basename \o <<".", "o", "r", "i", "g">> >>

\* KeepSpidering: is the code one of settings.SpiderCodes?
KeepSpidering(code) == code \in settings.SpiderCodes

\* ------------------------------------------------------ the HTTP transport

\* The error the redirect handler installed by NewWorker returns.
StopRedirect == "Stop redirect."

\* The handler of NewWorker: it stores the pending request in w.redir and
\* returns an error, which makes the client give up the redirect.
redirHandler(req) == [redir |-> req, err |-> StopRedirect]

\* client.RequestURL(u): the Fetch Outcomes of one GET.  resp: a response was
\* returned; code: its status; err: "" for nil; redirect: the request the
\* client handed to the redirect handler during the fetch, if any; eligible:
\* whether pageWorker.Eligible accepts the response; links: the URLs
\* pageWorker.Handle would extract from the body.
RequestURL(u) ==
  \* a response, no error
  { [resp |-> TRUE, code |-> c, err |-> "", redirect |-> NoURL, eligible |-> FALSE,
     links |-> 0] : c \in OkCodes }
  \cup
  \* a response, no error, with a body the Page Link Extractor accepts
  { [resp |-> TRUE, code |-> c, err |-> "", redirect |-> NoURL, eligible |-> TRUE,
     links |-> n] : c \in OkCodes, n \in LinkCounts }
  \cup
  \* a redirect: the handler has run, the client returns its error with the
  \* redirect response (whose body the extractor does not accept)
  { [resp |-> TRUE, code |-> c, err |-> redirHandler(r).err,
     redirect |-> redirHandler(r).redir, eligible |-> FALSE, links |-> 0] :
       c \in RedirCodes, r \in RedirTargets }
  \cup
  \* a transport failure without a response
  { [resp |-> FALSE, code |-> 0, err |-> "net", redirect |-> NoURL,
     eligible |-> FALSE, links |-> 0] }
  \cup
  \* a transport failure that nonetheless returns a response (with a
  \* spiderable status)
  { [resp |-> TRUE, code |-> c, err |-> "net", redirect |-> NoURL,
     eligible |-> FALSE, links |-> 0] : c \in OkCodes \cap SpiderCodes }
  \cup
  \* a redirect handed to the handler, and its error returned with no response
  (IF factory = "bare"
   THEN { [resp |-> FALSE, code |-> 0, err |-> redirHandler(r).err,
           redirect |-> redirHandler(r).redir, eligible |-> FALSE, links |-> 0] :
             r \in RedirTargets }
   ELSE {})

\* --------------------------------------------------------------- TryURL

ResetRedir_keepsSlot(old) == old

\* Line 162: the scratch slot is cleared before the fetch.
ResetRedir(old) == NoURL

\* w.redir when RequestURL has returned: cleared at line 162, then set by the
\* redirect handler if the client called it.
RedirSlot(old, o) ==
  IF o.redirect # NoURL THEN o.redirect ELSE ResetRedir(old)

\* Line 163: err != nil && w.redir == nil.
ErrorPath(slot, o) == o.err # "" /\ slot = NoURL

TryURLRecords_silentError(u, slot, o) ==
  IF o.err # "" /\ slot = NoURL
  THEN << >>
  ELSE << [URL |-> u, Error |-> "", Code |-> o.code, Redir |-> slot] >>

TryURLRecords_leaksSentinel(u, slot, o) ==
  IF o.err # "" /\ slot = NoURL
  THEN << [URL |-> u, Error |-> o.err,
           Code |-> IF o.resp THEN o.code ELSE 0, Redir |-> NoURL] >>
  ELSE << [URL |-> u, Error |-> o.err, Code |-> o.code, Redir |-> slot] >>

\* Line 170: on the else branch resp.Body is evaluated for the deferred
\* Close; with a nil resp this is a nil dereference and the goroutine panics.
TryURLPanics(slot, o) == ~ErrorPath(slot, o) /\ ~o.resp

\* The Result Records TryURL sends on rchan (line 168, or lines 187-192).
\* Code 0 is the zero value of an int that was not set.
TryURLRecords(u, slot, o) ==
  IF ErrorPath(slot, o)
  THEN << [URL |-> u, Error |-> o.err,
           Code |-> IF o.resp THEN o.code ELSE 0, Redir |-> NoURL] >>
  ELSE IF TryURLPanics(slot, o) THEN << >>
  ELSE << [URL |-> u, Error |-> "", Code |-> o.code, Redir |-> slot] >>

\* The calls of w.adder TryURL makes itself (lines 172-179), in order.
TryURLAdds(u, slot, o) ==
  IF ErrorPath(slot, o) \/ TryURLPanics(slot, o) THEN << >>
  ELSE (IF URLIsDir(u) /\ KeepSpidering(o.code)
          THEN << [url |-> u, cause |-> "dir"] >> ELSE << >>)
       \o (IF slot # NoURL
          THEN << [url |-> slot, cause |-> "redir"] >> ELSE << >>)

\* Line 170: resp.Body.Close() is deferred on the else branch only.
TryURLClosesBody(slot, o) == ~ErrorPath(slot, o) /\ ~TryURLPanics(slot, o)

\* Lines 180-182: the body is handed to the page worker.
TryURLHandles(pw, slot, o) ==
  ~ErrorPath(slot, o) /\ ~TryURLPanics(slot, o) /\ pw /\ o.eligible

\* Line 181: the calls of adder the Page Link Extractor makes inside Handle,
\* one per extracted link.
TryURLLinks(pw, slot, o) == IF TryURLHandles(pw, slot, o) THEN o.links ELSE 0

TryURLRet_ignoresError(slot, o) == o.code \in settings.SpiderCodes

\* Lines 161, 193, 198: the value TryURL returns.
TryURLRet(slot, o) ==
  IF ErrorPath(slot, o) \/ TryURLPanics(slot, o) THEN FALSE
  ELSE KeepSpidering(o.code)

\* The fetch returned a response with a spiderable status and TryURL did not
\* treat it as a transport error.
Spiderable(slot, o) ==
  o.resp /\ ~(o.err # "" /\ slot = NoURL) /\ o.code \in settings.SpiderCodes

NoCall ==
  [w |-> 0, url |-> NoURL, kind |-> "", resp |-> FALSE, code |-> 0, err |-> "",
   redirect |-> NoURL, old |-> NoURL, slot |-> NoURL, pw |-> FALSE,
   records |-> << >>,
   adds |-> << >>, closed |-> FALSE, handled |-> FALSE, links |-> 0,
   panicked |-> FALSE, ret |-> FALSE]

\* One call of TryURL by worker i for URL u, the transport answering o.  If
\* it panics, what it did before line 170 stands and it does not return.
\* Every call of adder enqueues one URL in the Work Source, whose queue holds
\* at most MaxQueue URLs in the runs explored.  The optional sleep of lines
\* 195-197 changes no state.
TryURL(i, u, kind, o) ==
  LET slot == RedirSlot(redir[i], o)
      recs == TryURLRecords(u, slot, o)
      handled == TryURLHandles(pageWorker[i], slot, o)
      enq == Len(TryURLAdds(u, slot, o)) + TryURLLinks(pageWorker[i], slot, o)
  IN /\ queued + enq <= MaxQueue
     /\ queued' = queued + enq
     /\ counter' = counter + enq
     /\ redir' = [redir EXCEPT ![i] = slot]
     /\ sent' = [sent EXCEPT ![i] = @ + Len(recs)]
     /\ attempts' = [attempts EXCEPT ![i] = Append(@, [url |-> u, kind |-> kind])]
     /\ rawOK' = [rawOK EXCEPT ![i] =
                    IF kind = "raw" THEN Spiderable(slot, o) ELSE @]
     /\ parentOK' = [parentOK EXCEPT ![i] =
                       IF kind \in {"raw", "ext"} THEN Spiderable(slot, o) ELSE @]
     /\ last' = [w |-> i, url |-> u, kind |-> kind, resp |-> o.resp,
                 code |-> o.code, err |-> o.err, redirect |-> o.redirect,
                 old |-> redir[i], slot |-> slot, pw |-> pageWorker[i],
                 records |-> recs,
                 adds |-> TryURLAdds(u, slot, o),
                 closed |-> TryURLClosesBody(slot, o),
                 handled |-> handled,
                 links |-> TryURLLinks(pageWorker[i], slot, o),
                 panicked |-> TryURLPanics(slot, o),
                 ret |-> TryURLRet(slot, o)]

\* ----------------------------------------------------------- TryMangleURL

TryMangleURL_ignoresSetting(u) ==
  LET spos == LastIndex(u, "/")
  IN IF spos = 0 THEN << >>
     ELSE [j \in 1..Len(Mangle(SubSeq(u, spos + 1, Len(u)))) |->
             SubSeq(u, 1, spos - 1) \o <<"/">> \o Mangle(SubSeq(u, spos + 1, Len(u)))[j]]

TryMangleURL_reversed(u) ==
  IF ~settings.Mangle THEN << >>
  ELSE LET spos == LastIndex(u, "/")
       IN IF spos = 0 THEN << >>
          ELSE [j \in 1..Len(Mangle(SubSeq(u, spos + 1, Len(u)))) |->
                  SubSeq(u, 1, spos - 1) \o <<"/">>
                    \o Mangle(SubSeq(u, spos + 1, Len(u)))[5 - j]]

\* The URLs TryMangleURL(u) passes to TryURL, in order (lines 141-157).
TryMangleURL(u) ==
  IF ~settings.Mangle THEN << >>
  ELSE LET spos == LastIndex(u, "/")
       IN IF spos = 0 THEN << >>
          ELSE LET dirname == SubSeq(u, 1, spos - 1)
                   basename == SubSeq(u, spos + 1, Len(u))
               IN [j \in 1..Len(Mangle(basename)) |->
                     dirname \o <<"/">> \o Mangle(basename)[j]]

\* -------------------------------------------------------------- HandleURL

ExtURL_accumulates(t, k) ==
  IF k > 1
  THEN t \o <<".">> \o settings.Extensions[k - 1] \o <<".">> \o settings.Extensions[k]
  ELSE t \o <<".">> \o settings.Extensions[k]

\* Lines 129-130: the k-th extension variant of the task.
ExtURL(t, k) == t \o <<".">> \o settings.Extensions[k]

\* Lines 124-126: the raw URL is mangled only if TryURL said so.
RawMangle(t, withMangle) == IF withMangle THEN TryMangleURL(t) ELSE << >>

\* Lines 131-133: an extension variant is mangled only if TryURL said so.
ExtMangle(u, ret) == IF ret THEN TryMangleURL(u) ELSE << >>

ExtLoop_ignoresExtension(t, k) ==
  IF k <= Len(settings.Extensions)
  THEN [pc |-> "ext", extI |-> k]
  ELSE [pc |-> "done", extI |-> 0]

\* Lines 127-128: where HandleURL goes when the extension loop is at index k.
ExtLoop(t, k) ==
  IF ~URLHasExtension(t) /\ k <= Len(settings.Extensions)
  THEN [pc |-> "ext", extI |-> k]
  ELSE [pc |-> "done", extI |-> 0]

AfterRaw_dirFallsThrough(t, withMangle) ==
  IF RawMangle(t, withMangle) # << >>
  THEN [pc |-> "mangle", extI |-> 0, mq |-> RawMangle(t, withMangle)]
  ELSE [pc |-> ExtLoop(t, 1).pc, extI |-> ExtLoop(t, 1).extI, mq |-> << >>]

AfterRaw_earlyReturn(t, withMangle) ==
  IF URLIsDir(t) THEN [pc |-> "select", extI |-> 0, mq |-> << >>]
  ELSE IF RawMangle(t, withMangle) # << >>
       THEN [pc |-> "mangle", extI |-> 0, mq |-> RawMangle(t, withMangle)]
       ELSE [pc |-> ExtLoop(t, 1).pc, extI |-> ExtLoop(t, 1).extI, mq |-> << >>]

\* Line 123: what follows the raw attempt.
AfterRaw(t, withMangle) ==
  IF URLIsDir(t) THEN [pc |-> "done", extI |-> 0, mq |-> << >>]
  ELSE IF RawMangle(t, withMangle) # << >>
       THEN [pc |-> "mangle", extI |-> 0, mq |-> RawMangle(t, withMangle)]
       ELSE [pc |-> ExtLoop(t, 1).pc, extI |-> ExtLoop(t, 1).extI, mq |-> << >>]

AfterExt_breakOnFailure(t, k, ret) ==
  IF ExtMangle(ExtURL(t, k), ret) # << >>
  THEN [pc |-> "mangle", extI |-> k, mq |-> ExtMangle(ExtURL(t, k), ret)]
  ELSE IF ret
       THEN [pc |-> ExtLoop(t, k + 1).pc, extI |-> ExtLoop(t, k + 1).extI, mq |-> << >>]
       ELSE [pc |-> "done", extI |-> 0, mq |-> << >>]

\* Lines 131-134: what follows the attempt of extension variant k.
AfterExt(t, k, ret) ==
  IF ExtMangle(ExtURL(t, k), ret) # << >>
  THEN [pc |-> "mangle", extI |-> k, mq |-> ExtMangle(ExtURL(t, k), ret)]
  ELSE [pc |-> ExtLoop(t, k + 1).pc, extI |-> ExtLoop(t, k + 1).extI, mq |-> << >>]

\* Lines 152-156: what follows one attempt of TryMangleURL's loop.
AfterMangle(t, c, k, rest) ==
  IF rest # << >> THEN [pc |-> "mangle", extI |-> k, mq |-> rest]
  ELSE IF c = "raw"
       THEN [pc |-> ExtLoop(t, 1).pc, extI |-> ExtLoop(t, 1).extI, mq |-> << >>]
       ELSE [pc |-> ExtLoop(t, k + 1).pc, extI |-> ExtLoop(t, k + 1).extI, mq |-> << >>]

Goto(i, n, c) ==
  /\ pc' = [pc EXCEPT ![i] = n.pc]
  /\ extI' = [extI EXCEPT ![i] = n.extI]
  /\ mq' = [mq EXCEPT ![i] = n.mq]
  /\ ctx' = [ctx EXCEPT ![i] = IF n.pc = "mangle" THEN c ELSE ""]

\* An unrecovered panic in a goroutine ends the process: every goroutine
\* stops where it is.
Crash ==
  /\ pc' = [j \in WorkerIds |-> "crashed"]
  /\ UNCHANGED << extI, mq, ctx >>

\* No goroutine has panicked.
ProcessAlive == \A j \in WorkerIds : pc[j] # "crashed"

\* Where worker i goes after a call of TryURL that met outcome o: on to n, or
\* nowhere if the call panicked.
AfterTryURL(i, o, n, c) ==
  IF TryURLPanics(RedirSlot(redir[i], o), o) THEN Crash ELSE Goto(i, n, c)

\* Line 122: the raw attempt.
HandleRaw(i) ==
  /\ pc[i] = "raw"
  /\ \E o \in RequestURL(task[i]) :
       /\ TryURL(i, task[i], "raw", o)
       /\ AfterTryURL(i, o, AfterRaw(task[i], TryURLRet(RedirSlot(redir[i], o), o)), "raw")
  /\ UNCHANGED << settings, factory, supI, supPhase, task, pageWorker, srcClosed, stopBlocked, stopReturned, dequeued, doneTotal >>

\* Lines 152-156: one iteration of TryMangleURL's loop.
HandleMangle(i) ==
  /\ pc[i] = "mangle"
  /\ \E o \in RequestURL(Head(mq[i])) :
       /\ TryURL(i, Head(mq[i]), IF ctx[i] = "raw" THEN "mangle" ELSE "extmangle", o)
       /\ AfterTryURL(i, o, AfterMangle(task[i], ctx[i], extI[i], Tail(mq[i])), ctx[i])
  /\ UNCHANGED << settings, factory, supI, supPhase, task, pageWorker, srcClosed, stopBlocked, stopReturned, dequeued, doneTotal >>

\* Lines 128-131: the attempt of one extension variant.
HandleExt(i) ==
  /\ pc[i] = "ext"
  /\ \E o \in RequestURL(ExtURL(task[i], extI[i])) :
       /\ TryURL(i, ExtURL(task[i], extI[i]), "ext", o)
       /\ AfterTryURL(i, o, AfterExt(task[i], extI[i], TryURLRet(RedirSlot(redir[i], o), o)), "ext")
  /\ UNCHANGED << settings, factory, supI, supPhase, task, pageWorker, srcClosed, stopBlocked, stopReturned, dequeued, doneTotal >>

DoneUnits_perAttempt(i) == Len(attempts[i])

\* Line 138: the units HandleURL marks complete, done(1).
DoneUnits(i) == 1

\* Line 138: w.done(1); HandleURL returns to the loop of Run.
HandleDone(i) ==
  /\ pc[i] = "done"
  /\ pc' = [pc EXCEPT ![i] = "select"]
  /\ doneTotal' = doneTotal + 1
  /\ counter' = counter - DoneUnits(i)
  /\ task' = [task EXCEPT ![i] = NoURL]
  /\ attempts' = [attempts EXCEPT ![i] = << >>]
  /\ rawOK' = [rawOK EXCEPT ![i] = FALSE]
  /\ parentOK' = [parentOK EXCEPT ![i] = FALSE]
  /\ sent' = [sent EXCEPT ![i] = 0]
  /\ last' = NoCall
  /\ UNCHANGED << settings, factory, supI, supPhase, mq, ctx, extI, redir, pageWorker, srcClosed, stopBlocked, stopReturned, dequeued, queued >>

\* -------------------------------------------------------------------- Run

RunStop_interrupts(i) ==
  /\ pc[i] \notin {"none", "exited"}
  /\ stopBlocked[i] > 0
  /\ pc' = [pc EXCEPT ![i] = "exited"]
  /\ stopBlocked' = [stopBlocked EXCEPT ![i] = @ - 1]
  /\ stopReturned' = [stopReturned EXCEPT ![i] = @ + 1]
  /\ last' = NoCall
  /\ UNCHANGED << settings, factory, supI, supPhase, task, mq, ctx, extI, redir, pageWorker,
                  srcClosed, dequeued, doneTotal, attempts, rawOK, parentOK, sent, queued, counter >>

\* Lines 101-102: the stop case of the select; the Stop() call it meets returns.
RunStop(i) ==
  /\ pc[i] = "select"
  /\ stopBlocked[i] > 0
  /\ pc' = [pc EXCEPT ![i] = "exited"]
  /\ stopBlocked' = [stopBlocked EXCEPT ![i] = @ - 1]
  /\ stopReturned' = [stopReturned EXCEPT ![i] = @ + 1]
  /\ last' = NoCall
  /\ UNCHANGED << settings, factory, supI, supPhase, task, mq, ctx, extI, redir, pageWorker,
                  srcClosed, dequeued, doneTotal, attempts, rawOK, parentOK, sent, queued, counter >>

RunClosed_keepsLooping(i) ==
  /\ pc[i] = "select"
  /\ srcClosed
  /\ last' = NoCall
  /\ UNCHANGED << settings, factory, supI, supPhase, pc, task, mq, ctx, extI, redir, pageWorker,
                  srcClosed, stopBlocked, stopReturned, dequeued,
                  doneTotal, attempts, rawOK, parentOK, sent, queued, counter >>

\* Lines 103-106: the receive from a closed, empty stream.
RunClosed(i) ==
  /\ pc[i] = "select"
  /\ srcClosed
  /\ pc' = [pc EXCEPT ![i] = "exited"]
  /\ last' = NoCall
  /\ UNCHANGED << settings, factory, supI, supPhase, task, mq, ctx, extI, redir, pageWorker,
                  srcClosed, stopBlocked, stopReturned, dequeued,
                  doneTotal, attempts, rawOK, parentOK, sent, queued, counter >>

\* Lines 103, 107: the Work Source has URL u, one of those in its queue, ready
\* on the stream; the worker receives it and enters HandleURL.
RunDequeue(i, u) ==
  /\ pc[i] = "select"
  /\ ~srcClosed
  /\ dequeued < MaxTasks
  /\ queued > 0
  /\ queued' = queued - 1
  /\ task' = [task EXCEPT ![i] = u]
  /\ pc' = [pc EXCEPT ![i] = "raw"]
  /\ dequeued' = dequeued + 1
  /\ last' = NoCall
  /\ UNCHANGED << settings, factory, supI, supPhase, mq, ctx, extI, redir, pageWorker,
                  srcClosed, stopBlocked, stopReturned, doneTotal, attempts, rawOK, parentOK, sent, counter >>

\* The calls of Stop() made so far, on all handles.
StopCalls ==
  stopBlocked[1] + stopReturned[1] + stopBlocked[2] + stopReturned[2]

\* Lines 116-118: a caller enters Stop() and blocks in the send on w.stop, an
\* unbuffered channel (line 81).  Handles exist once StartWorkers has returned.
Stop(i) ==
  /\ ProcessAlive
  /\ supI > settings.Workers
  /\ i <= settings.Workers
  /\ StopCalls < MaxStops
  /\ stopBlocked' = [stopBlocked EXCEPT ![i] = @ + 1]
  /\ last' = NoCall
  /\ UNCHANGED << settings, factory, supI, supPhase, pc, task, mq, ctx, extI, redir,
                  pageWorker, srcClosed, stopReturned, dequeued,
                  doneTotal, attempts, rawOK, parentOK, sent, queued, counter >>

\* ----------------------------------------------------------- StartWorkers

\* Lines 94-96.
SetPageWorker(i) == [pageWorker EXCEPT ![i] = TRUE]

\* Lines 221-222: NewWorker, then RunInBackground starts the goroutine.
StartNew ==
  /\ ProcessAlive
  /\ supI <= settings.Workers
  /\ supPhase = "new"
  /\ pc' = [pc EXCEPT ![supI] = "select"]
  /\ supPhase' = "attach"
  /\ last' = NoCall
  /\ UNCHANGED << settings, factory, supI, task, mq, ctx, extI, redir, pageWorker, srcClosed, stopBlocked, stopReturned, dequeued, doneTotal, attempts, rawOK, parentOK, sent, queued, counter >>

\* Lines 223-225, and the loop increment of line 220.
StartAttach ==
  /\ ProcessAlive
  /\ supI <= settings.Workers
  /\ supPhase = "attach"
  /\ pageWorker' = IF settings.ParseHTML THEN SetPageWorker(supI) ELSE pageWorker
  /\ supI' = supI + 1
  /\ supPhase' = "new"
  /\ last' = NoCall
  /\ UNCHANGED << settings, factory, pc, task, mq, ctx, extI, redir, srcClosed, stopBlocked, stopReturned, dequeued, doneTotal, attempts, rawOK, parentOK, sent, queued, counter >>

\* ------------------------------------------------------- the Work Source

\* The Work Source closes the stream when it is exhausted: its completion
\* counter is back at zero.
CloseSrc ==
  /\ ProcessAlive
  /\ ~srcClosed
  /\ counter = 0
  /\ srcClosed' = TRUE
  /\ last' = NoCall
  /\ UNCHANGED << settings, factory, supI, supPhase, pc, task, mq, ctx, extI, redir,
                  pageWorker, stopBlocked, stopReturned, dequeued,
                  doneTotal, attempts, rawOK, parentOK, sent, queued, counter >>

\* --------------------------------------------------------- specification

ExtLists == { SubSeq(ExtPool, 1, n) : n \in 0..MaxExt }

\* The settings explored.  A pool of several workers is explored with
\* mangling off and no extension, so that each URL is one fetch attempt; the
\* fan-out of HandleURL is explored with one worker, and HTML parsing with at
\* most one extension.
Settings ==
  { s \in [Workers : 1..Cardinality(WorkerIds), Extensions : ExtLists, Mangle : BOOLEAN,
           SpiderCodes : { SpiderCodes }, ParseHTML : BOOLEAN] :
      /\ s.Workers > 1 => (~s.Mangle /\ s.Extensions = << >>)
      /\ s.ParseHTML => Len(s.Extensions) <= 1 }

\* The state when StartWorkers is called, whatever the factory.
InitWorkers ==
  /\ settings \in Settings
  /\ supI = 1
  /\ supPhase = "new"
  /\ pc = [i \in WorkerIds |-> "none"]
  /\ task = [i \in WorkerIds |-> NoURL]
  /\ mq = [i \in WorkerIds |-> << >>]
  /\ ctx = [i \in WorkerIds |-> ""]
  /\ extI = [i \in WorkerIds |-> 0]
  /\ redir = [i \in WorkerIds |-> NoURL]
  /\ pageWorker = [i \in WorkerIds |-> FALSE]
  /\ srcClosed = FALSE
  /\ stopBlocked = [i \in WorkerIds |-> 0]
  /\ stopReturned = [i \in WorkerIds |-> 0]
  /\ dequeued = 0
  /\ doneTotal = 0
  /\ attempts = [i \in WorkerIds |-> << >>]
  /\ rawOK = [i \in WorkerIds |-> FALSE]
  /\ parentOK = [i \in WorkerIds |-> FALSE]
  /\ sent = [i \in WorkerIds |-> 0]
  /\ queued = 1
  /\ counter = queued
  /\ last = NoCall

\* The scanner's own factory: its clients follow the Fetch Outcomes, a
\* captured redirect comes with the redirect response.
Init == InitWorkers /\ factory = "std"

\* Any ClientFactory the signature of StartWorkers admits.
AnyFactoryInit == InitWorkers /\ factory \in {"std", "bare"}

Next ==
  \/ StartNew
  \/ StartAttach
  \/ CloseSrc
  \/ \E i \in WorkerIds : Stop(i)
  \/ \E i \in WorkerIds : RunStop(i)
  \/ \E i \in WorkerIds : RunClosed(i)
  \/ \E i \in WorkerIds, u \in TaskURLs : RunDequeue(i, u)
  \/ \E i \in WorkerIds : HandleRaw(i)
  \/ \E i \in WorkerIds : HandleMangle(i)
  \/ \E i \in WorkerIds : HandleExt(i)
  \/ \E i \in WorkerIds : HandleDone(i)

Spec == Init /\ [][Next]_vars

\* One step of worker i's goroutine inside HandleURL.
HandleStep(i) ==
  HandleRaw(i) \/ HandleMangle(i) \/ HandleExt(i) \/ HandleDone(i)

\* One step of worker i's goroutine at the select of Run: whichever of the
\* ready cases the select picks.
SelectStep(i) ==
  RunStop(i) \/ RunClosed(i) \/ \E u \in TaskURLs : RunDequeue(i, u)

\* The scheduling the Go runtime gives: StartWorkers runs to its end; a
\* goroutine that can take a step takes one (every fetch returns and the
\* results channel is consumed); a select with a ready case proceeds with one
\* of its ready cases, with no fairness among them.  Nothing obliges a caller
\* to call Stop() or the Work Source to close the stream.
Fairness ==
  /\ WF_vars(StartNew)
  /\ WF_vars(StartAttach)
  /\ \A i \in WorkerIds : WF_vars(HandleStep(i)) /\ WF_vars(SelectStep(i))

\* The runs explored under fairness: at most one extension, no HTML parsing.
FairInit ==
  /\ Init
  /\ Len(settings.Extensions) <= 1
  /\ ~settings.ParseHTML

FairSpec == FairInit /\ [][Next]_vars /\ Fairness

AnyFactorySpec == AnyFactoryInit /\ [][Next]_vars

\* ------------------------------------------------------------------ claims

\* The workers that are inside HandleURL.
Handling == { i \in WorkerIds : pc[i] \in {"raw", "mangle", "ext", "done"} }

\* C1: every dequeued URL gets exactly one done(1), after its last fetch
\* attempt, whatever the outcomes of the attempts and also with a Stop()
\* pending; done is never called for a URL that was not dequeued.  The pool
\* has called done once for each URL whose handling has made its last fetch
\* attempt and returned, and for no other: the calls of done and the URLs a
\* worker is still handling add up to the URLs dequeued.
C1_DoneOncePerDequeue ==
  /\ doneTotal + Cardinality(Handling) = dequeued
  /\ doneTotal <= dequeued
  /\ \A i \in WorkerIds :
        pc[i] \in {"select", "exited", "none"} => task[i] = NoURL /\ attempts[i] = << >>

\* C1 witness: two URLs have been handled and marked done by a worker on which
\* a Stop() is pending, the last through a transport error.
C1_Witness ==
  \E i \in WorkerIds :
    /\ doneTotal = 2 /\ dequeued = 2
    /\ pc[i] = "select"
    /\ stopBlocked[i] > 0
    /\ settings.Workers = 1

\* C2: every call of TryURL sends exactly one Result Record, for the URL it
\* attempted, on either path; each worker of the pool has sent as many records
\* as it has made fetch attempts.
C2_OneRecordPerAttempt ==
  /\ last.w # 0 => Len(last.records) = 1 /\ last.records[1].URL = last.url
  /\ \A i \in WorkerIds : sent[i] = Len(attempts[i])

\* C2 witness: in a pool of two workers, the second worker's attempt ended in a
\* transport error and sent its one record while the first worker had sent one.
C2_Witness ==
  /\ settings.Workers = 2
  /\ last.w = 2 /\ last.err = "net" /\ ~last.resp
  /\ Len(last.records) = 1
  /\ sent[1] = 1 /\ sent[2] = 1

\* The calls of adder, in the last call of TryURL, that pass URL u.
AddsOf(u) == { j \in DOMAIN last.adds : last.adds[j].url = u }

\* The calls of adder, in the last call of TryURL, made for cause c.
AddsFor(c) == { j \in DOMAIN last.adds : last.adds[j].cause = c }

\* The last call of TryURL took the transport-error path of line 163.
LastOnErrorPath == last.err # "" /\ last.redirect = NoURL

\* C3 as stated: when a redirect is captured during the fetch of u, the record
\* for u carries the captured target and no error, adder is called exactly
\* once with the captured target, and no record carries the sentinel error.
C3_RedirectAddedOnce ==
  /\ (last.w # 0 /\ last.redirect # NoURL) =>
        /\ last.records = << [URL |-> last.url, Error |-> "", Code |-> last.code,
                              Redir |-> last.redirect] >>
        /\ Cardinality(AddsOf(last.redirect)) = 1
  /\ \A j \in DOMAIN last.records : last.records[j].Error # StopRedirect

\* C3 as amended: as C3, but adder is called exactly once for the redirect,
\* with the captured target; it receives the target a second time exactly when
\* u is a directory-style URL with a spiderable status redirected to itself
\* (the directory referral of line 174).
C3_RedirectReported ==
  /\ (last.w # 0 /\ last.redirect # NoURL) =>
        /\ last.records = << [URL |-> last.url, Error |-> "", Code |-> last.code,
                              Redir |-> last.redirect] >>
        /\ Cardinality(AddsFor("redir")) = 1
        /\ \A j \in AddsFor("redir") : last.adds[j].url = last.redirect
        /\ Cardinality(AddsOf(last.redirect)) =
             IF URLIsDir(last.url) /\ KeepSpidering(last.code)
                /\ last.url = last.redirect
             THEN 2 ELSE 1
  /\ \A j \in DOMAIN last.records : last.records[j].Error # StopRedirect

\* C3 witness: the fetch of /d/a was redirected to /d/; the record carries the
\* target and adder was called with it.
C3_Witness ==
  /\ last.url = <<"/", "d", "/", "a">>
  /\ last.err = StopRedirect
  /\ last.redirect = <<"/", "d", "/">>
  /\ last.records[1].Redir = <<"/", "d", "/">>
  /\ last.adds = << [url |-> <<"/", "d", "/">>, cause |-> "redir"] >>

\* C4: whenever the transport returned a response, the body has been closed
\* when TryURL returns, also when the transport returned an error with it and
\* no redirect was captured.
C4_BodyClosedOnEveryPath ==
  (last.w # 0 /\ last.resp) => last.closed

\* C5: with HTML parsing enabled, no worker makes a fetch attempt before its
\* Page Link Extractor is attached.
C5_ExtractorBeforeFetch ==
  (last.w # 0 /\ settings.ParseHTML) => last.pw

\* The attempts of worker i's current task that were made as kind k.
OfKind(i, k) == SelectSeq(attempts[i], LAMBDA a : a.kind = k)

\* C6 as stated: for a non-directory URL that carries an extension no
\* extension variant is attempted, and its mangle variants are attempted
\* whenever the mangle setting is on.
C6_MangleWheneverEnabled ==
  \A i \in WorkerIds :
    (pc[i] = "done" /\ ~URLIsDir(task[i]) /\ URLHasExtension(task[i])) =>
      /\ OfKind(i, "ext") = << >>
      /\ settings.Mangle => Len(OfKind(i, "mangle")) = Len(Mangle(<< >>))

\* C6 as amended: for a non-directory URL that carries an extension no
\* extension variant is attempted; its mangle variants are attempted exactly
\* when the mangle setting is on, the raw attempt took the response path with a
\* spiderable status, and the path contains a "/".
C6_NoExtVariantMangleGated ==
  \A i \in WorkerIds :
    (pc[i] = "done" /\ ~URLIsDir(task[i]) /\ URLHasExtension(task[i])) =>
      /\ OfKind(i, "ext") = << >>
      /\ OfKind(i, "extmangle") = << >>
      /\ Len(OfKind(i, "mangle")) =
           IF settings.Mangle /\ rawOK[i] /\ LastIndex(task[i], "/") # 0
           THEN Len(Mangle(<< >>)) ELSE 0
      /\ Len(attempts[i]) = 1 + Len(OfKind(i, "mangle"))

\* C6 witness: /a.p has been handled with extensions configured and mangling
\* on: the raw attempt and its four mangle variants, no extension variant.
C6_Witness ==
  \E i \in WorkerIds :
    /\ pc[i] = "done"
    /\ task[i] = <<"/", "a", ".", "p">>
    /\ settings.Mangle /\ settings.Extensions # << >>
    /\ rawOK[i]
    /\ Len(attempts[i]) = 5

\* C7: for a non-directory URL without extension, HandleURL makes exactly one
\* extension-variant attempt per configured extension, in order, with path =
\* original path + "." + extension, whatever the outcomes of the raw attempt and
\* of the earlier variants, after the raw attempt.
C7_AllExtVariants ==
  \A i \in WorkerIds :
    (pc[i] = "done" /\ ~URLIsDir(task[i]) /\ ~URLHasExtension(task[i])) =>
      /\ Len(OfKind(i, "ext")) = Len(settings.Extensions)
      /\ \A k \in 1..Len(settings.Extensions) :
            OfKind(i, "ext")[k].url = task[i] \o <<".">> \o settings.Extensions[k]
      /\ attempts[i][1] = [url |-> task[i], kind |-> "raw"]
      /\ Len(OfKind(i, "raw")) = 1

\* C7 witness: /d/a has been handled with every extension configured; the raw
\* attempt was not spiderable and the last variant ended in a transport error.
C7_Witness ==
  \E i \in WorkerIds :
    /\ pc[i] = "done"
    /\ task[i] = <<"/", "d", "/", "a">>
    /\ Len(settings.Extensions) = MaxExt
    /\ ~rawOK[i]
    /\ last.w = i /\ last.kind = "ext" /\ last.err = "net"
    /\ Len(OfKind(i, "ext")) = MaxExt

\* C8 as stated: for a dequeued directory-style URL whose response status is
\* spiderable, adder is called with that URL exactly once, and its handling is
\* exactly one fetch attempt.
C8_DirAddedOnce ==
  (last.w # 0 /\ last.kind = "raw" /\ URLIsDir(last.url) /\ last.resp
     /\ KeepSpidering(last.code)) =>
    /\ Cardinality(AddsOf(last.url)) = 1
    /\ pc[last.w] = "done"
    /\ Len(attempts[last.w]) = 1

\* C8 as amended: the handling of a directory-style URL is exactly one fetch
\* attempt.  If the fetch took the response path with a spiderable status,
\* TryURL makes the directory referral adder(url) exactly once, and adder
\* receives that URL a second time exactly when a captured redirect points to
\* the URL itself; if TryURL took the transport-error path, adder is not
\* called, whatever the status of the response returned with the error.
C8_DirReferredOnce ==
  (last.w # 0 /\ last.kind = "raw" /\ URLIsDir(last.url)) =>
    /\ pc[last.w] = "done"
    /\ Len(attempts[last.w]) = 1
    /\ LastOnErrorPath => last.adds = << >>
    /\ (~LastOnErrorPath /\ KeepSpidering(last.code)) =>
         /\ Cardinality(AddsFor("dir")) = 1
         /\ \A j \in AddsFor("dir") : last.adds[j].url = last.url
         /\ Cardinality(AddsOf(last.url)) =
              IF last.redirect = last.url THEN 2 ELSE 1
    /\ ~KeepSpidering(last.code) => AddsFor("dir") = {}

\* C8 witness: /d/ answered 200 without error; it was referred back once and
\* its handling is over after one attempt, with mangling and extensions on.
C8_Witness ==
  /\ last.kind = "raw"
  /\ last.url = <<"/", "d", "/">>
  /\ last.code = 200 /\ last.err = ""
  /\ last.adds = << [url |-> <<"/", "d", "/">>, cause |-> "dir"] >>
  /\ pc[last.w] = "done"
  /\ settings.Mangle /\ settings.Extensions # << >>

\* The URLs of the attempts of worker i's current task, in order.
AttemptURLs(i) == [j \in 1..Len(attempts[i]) |-> attempts[i][j].url]

\* The scenario of C9: /d/a with extensions [p] and mangling on, the raw
\* attempt spiderable, the attempt of /d/a.p not.
C9_Scenario(i) ==
  /\ pc[i] = "done"
  /\ task[i] = <<"/", "d", "/", "a">>
  /\ settings.Extensions = << <<"p">> >>
  /\ settings.Mangle
  /\ rawOK[i]
  /\ last.w = i /\ last.kind = "ext" /\ ~KeepSpidering(last.code)

\* C9: TryURL returns true exactly when it took the response path and the
\* status is spiderable, false on the transport-error path; the mangle
\* variants of a URL are attempted only if that URL's own attempt took the
\* response path with a spiderable status.  In the scenario the attempts are
\* /d/a, its four mangle variants and /d/a.p.
C9_MangleOnlyIfSpiderable ==
  /\ last.w # 0 => (last.ret <=> (~LastOnErrorPath /\ last.code \in SpiderCodes))
  /\ \A i \in WorkerIds :
        /\ pc[i] = "mangle" => parentOK[i]
        /\ OfKind(i, "mangle") # << >> => rawOK[i]
        /\ (last.w = i /\ last.kind \in {"raw", "ext"} /\ ~last.ret) =>
             pc[i] # "mangle"
        /\ C9_Scenario(i) =>
             AttemptURLs(i) =
               << <<"/", "d", "/", "a">>,
                  <<"/", "d", "/", ".", "a", ".", "s", "w", "p">>,
                  <<"/", "d", "/", "a", "~">>,
                  <<"/", "d", "/", "a", ".", "b", "a", "k">>,
                  <<"/", "d", "/", "a", ".", "o", "r", "i", "g">>,
                  <<"/", "d", "/", "a", ".", "p">> >>

\* C9 witness: the scenario has happened, /d/a.p answering 404.
C9_Witness ==
  \E i \in WorkerIds : C9_Scenario(i) /\ last.code = 404 /\ Len(attempts[i]) = 6

\* C10: a worker on which a Stop() has returned has exited, between two
\* dequeues: it is handling no URL (every URL it dequeued has had all its
\* attempts and its done), and it dequeues and fetches nothing any more.
C10_StopBetweenDequeues ==
  \A i \in WorkerIds :
    stopReturned[i] > 0 =>
      /\ pc[i] = "exited"
      /\ task[i] = NoURL /\ attempts[i] = << >> /\ mq[i] = << >>
      /\ last.w # i

\* C10 witness: Stop() has returned on a worker that had dequeued a URL and
\* has marked it done.
C10_Witness ==
  \E i \in WorkerIds :
    /\ settings.Workers = 1
    /\ stopReturned[i] = 1
    /\ pc[i] = "exited"
    /\ dequeued >= 1 /\ doneTotal = dequeued

\* C11: a worker that is at its select with a Stop() pending on it exits; it
\* does not dequeue another URL, also when the Work Source has one ready.
C11_StopBeforeDequeue ==
  [][\A i \in WorkerIds :
       (pc[i] = "select" /\ stopBlocked[i] > 0) => pc'[i] # "raw"]_vars

\* The URL whose mangle variants worker i is attempting.
MangleParent(i) ==
  IF ctx[i] = "raw" THEN task[i] ELSE task[i] \o <<".">> \o settings.Extensions[extI[i]]

\* The part of path u after its last "/".
Basename(u) == SubSeq(u, LastIndex(u, "/") + 1, Len(u))

\* The part of path u up to and including its last "/".
Dirname(u) == SubSeq(u, 1, LastIndex(u, "/"))

\* C13: Mangle returns, for every basename b including the empty one, the four
\* candidates "."+b+".swp", b+"~", b+".bak", b+".orig" in this order:
\* Mangle("config") is [".config.swp", "config~", "config.bak", "config.orig"],
\* Mangle("") is ["..swp", "~", ".bak", ".orig"], likewise for "a.p"; and the
\* candidates a worker still has to try in a mangle loop are the last ones of
\* the four candidates of the basename it mangles.
C13_MangleFourCandidates ==
  /\ Mangle(<<"c", "o", "n", "f", "i", "g">>) =
       << <<".", "c", "o", "n", "f", "i", "g", ".", "s", "w", "p">>,
          <<"c", "o", "n", "f", "i", "g", "~">>,
          <<"c", "o", "n", "f", "i", "g", ".", "b", "a", "k">>,
          <<"c", "o", "n", "f", "i", "g", ".", "o", "r", "i", "g">> >>
  /\ Mangle(<< >>) =
       << <<".", ".", "s", "w", "p">>, <<"~">>, <<".", "b", "a", "k">>,
          <<".", "o", "r", "i", "g">> >>
  /\ Mangle(<<"a", ".", "p">>) =
       << <<".", "a", ".", "p", ".", "s", "w", "p">>, <<"a", ".", "p", "~">>,
          <<"a", ".", "p", ".", "b", "a", "k">>,
          <<"a", ".", "p", ".", "o", "r", "i", "g">> >>
  /\ \A i \in WorkerIds :
        pc[i] = "mangle" =>
          LET candidates == Mangle(Basename(MangleParent(i)))
          IN /\ Len(mq[i]) \in 1..4
             /\ \A j \in 1..Len(mq[i]) :
                   Basename(mq[i][j]) = candidates[4 - Len(mq[i]) + j]

\* C13 witness: a worker is about to try the four candidates of the basename
\* a.p of the extension variant /d/a.p.
C13_Witness ==
  \E i \in WorkerIds :
    /\ pc[i] = "mangle" /\ ctx[i] = "ext"
    /\ MangleParent(i) = <<"/", "d", "/", "a", ".", "p">>
    /\ Len(mq[i]) = 4
    /\ Basename(mq[i][4]) = <<"a", ".", "p", ".", "o", "r", "i", "g">>

\* The extension variants of raw URL t.
DirectExt(t) ==
  { t \o <<".">> \o settings.Extensions[k] : k \in 1..Len(settings.Extensions) }

\* The mangle variants of URL u: its directory part kept, its basename
\* replaced by a candidate of Mangle.
DirectMangle(u) ==
  { Dirname(u) \o Mangle(Basename(u))[k] : k \in 1..4 }

\* C14 as stated: in the handling of one dequeued URL, every fetch attempt
\* other than the raw one is derived directly from the raw URL by a single
\* extension-append or a single mangle.
C14_OneLevelFromRaw ==
  \A i \in WorkerIds :
    \A j \in 2..Len(attempts[i]) :
      attempts[i][j].url \in DirectExt(task[i]) \cup DirectMangle(task[i])

\* C14 as amended: a mangle variant spawns no further variant and an extension
\* variant spawns no further extension variant, but an extension variant does
\* spawn its own mangle variants: every fetch attempt other than the raw one is
\* an extension variant of the raw URL, a mangle variant of the raw URL, or a
\* mangle variant of an extension variant of the raw URL, and nothing deeper.
C14_NoVariantOfMangleVariant ==
  \A i \in WorkerIds :
    attempts[i] # << >> =>
      LET exts == DirectExt(task[i])
          mangles == DirectMangle(task[i])
          extmangles == UNION { DirectMangle(e) : e \in exts }
      IN /\ \A j \in 1..Len(attempts[i]) :
               LET a == attempts[i][j]
               IN /\ (j = 1) <=> (a.kind = "raw")
                  /\ a.kind = "raw" => a.url = task[i]
                  /\ a.kind = "ext" => a.url \in exts
                  /\ a.kind = "mangle" => a.url \in mangles
                  /\ a.kind = "extmangle" => a.url \in extmangles
                  /\ j > 1 => a.url # task[i]
         /\ Len(attempts[i]) <=
              1 + 4 + Len(settings.Extensions) * (1 + 4)

\* C14 witness: /d/a has been handled with extension p and mangling on; the
\* last attempt was the fourth mangle variant of the extension variant /d/a.p.
C14_Witness ==
  \E i \in WorkerIds :
    /\ pc[i] = "done"
    /\ task[i] = <<"/", "d", "/", "a">>
    /\ last.w = i /\ last.kind = "extmangle"
    /\ last.url = <<"/", "d", "/", "a", ".", "p", ".", "o", "r", "i", "g">>

\* The position of the last extension-variant attempt before position p in
\* the attempts of worker i (0 if there is none).
LastExtBefore(i, p) ==
  LET before == { q \in 1..(p - 1) : attempts[i][q].kind = "ext" }
  IN IF before = {} THEN 0 ELSE CHOOSE q \in before : \A r \in before : r <= q

\* C15: within one worker's handling of one dequeued URL the attempts, and so
\* the records the worker sends, come in this order: the raw URL; then the raw
\* URL's mangle variants in Mangle order; then the extension variants in the
\* order of the settings, each one followed at once by its own mangle variants
\* in Mangle order.
C15_AttemptOrder ==
  \A i \in WorkerIds :
    /\ sent[i] = Len(attempts[i])
    /\ \A j \in 1..Len(attempts[i]) :
          LET a == attempts[i][j]
          IN /\ (j = 1) <=> (a.kind = "raw")
             /\ a.kind = "mangle" =>
                  /\ j \in 2..5
                  /\ \A q \in 2..j : attempts[i][q].kind = "mangle"
                  /\ a.url = Dirname(task[i]) \o Mangle(Basename(task[i]))[j - 1]
             /\ a.kind = "ext" =>
                  LET n == Len(SelectSeq(SubSeq(attempts[i], 1, j),
                                         LAMBDA b : b.kind = "ext"))
                  IN a.url = task[i] \o <<".">> \o settings.Extensions[n]
             /\ a.kind = "extmangle" =>
                  LET q == LastExtBefore(i, j)
                  IN /\ q > 0 /\ j - q \in 1..4
                     /\ \A r \in (q + 1)..j : attempts[i][r].kind = "extmangle"
                     /\ a.url = Dirname(attempts[i][q].url)
                                  \o Mangle(Basename(attempts[i][q].url))[j - q]
    /\ pc[i] = "mangle" /\ ctx[i] = "raw" => OfKind(i, "ext") = << >>

\* C15 witness: /d/a has been handled with two extensions and mangling on,
\* every attempt spiderable: the raw URL, its four mangle variants, /d/a.p and
\* its four mangle variants, /d/a.q and its four mangle variants.
C15_Witness ==
  \E i \in WorkerIds :
    /\ pc[i] = "done"
    /\ task[i] = <<"/", "d", "/", "a">>
    /\ Len(attempts[i]) = 15
    /\ attempts[i][6] = [url |-> <<"/", "d", "/", "a", ".", "p">>, kind |-> "ext"]
    /\ attempts[i][11] = [url |-> <<"/", "d", "/", "a", ".", "q">>, kind |-> "ext"]
    /\ attempts[i][15].kind = "extmangle"

\* C17: TryMangleURL, called for the URL of a raw or extension-variant attempt
\* for which TryURL returned true, makes no fetch attempt when mangling is
\* disabled or the path contains no "/"; otherwise it makes one fetch attempt
\* per candidate of Mangle, with the directory part kept and only the basename
\* replaced.
C17_MangleNoOpOrAllCandidates ==
  /\ (last.w # 0 /\ last.kind \in {"raw", "ext"} /\ last.ret /\ ~URLIsDir(last.url)) =>
        IF ~settings.Mangle \/ LastIndex(last.url, "/") = 0
        THEN pc[last.w] # "mangle" /\ mq[last.w] = << >>
        ELSE /\ pc[last.w] = "mangle"
             /\ Len(mq[last.w]) = 4
             /\ \A j \in 1..4 :
                   /\ Dirname(mq[last.w][j]) = Dirname(last.url)
                   /\ Basename(mq[last.w][j]) = Mangle(Basename(last.url))[j]
  /\ \A i \in WorkerIds :
        /\ (~settings.Mangle \/ LastIndex(task[i], "/") = 0) =>
              /\ OfKind(i, "mangle") = << >> /\ OfKind(i, "extmangle") = << >>
              /\ pc[i] # "mangle"
        /\ pc[i] \in {"ext", "done"} =>
              Len(OfKind(i, "mangle")) \in {0, 4}
        /\ (pc[i] = "done" /\ rawOK[i] /\ ~URLIsDir(task[i]) /\ settings.Mangle
              /\ LastIndex(task[i], "/") # 0) =>
              Len(OfKind(i, "mangle")) = 4

\* C17 witness: with mangling on, the raw attempt of the path a (no "/") was
\* spiderable; TryMangleURL was called and made no attempt, and the worker
\* goes on with the first extension variant.
C17_Witness ==
  /\ last.kind = "raw" /\ last.url = <<"a">> /\ last.ret
  /\ settings.Mangle
  /\ pc[last.w] = "ext"
  /\ Len(attempts[last.w]) = 1

\* C16: the redirect target in the record of a fetch attempt, and the redirect
\* URL passed to adder, come only from a redirect captured during that attempt:
\* an attempt that captures none, also right after one that captured a
\* redirect, reports no redirect target, re-enqueues no redirect and, if it
\* fails at transport level, is reported as an error and not as a success.
C16_NoStaleRedirect ==
  last.w # 0 =>
    /\ last.slot = last.redirect
    /\ redir[last.w] = last.redirect
    /\ \A j \in DOMAIN last.records : last.records[j].Redir = last.redirect
    /\ \A j \in AddsFor("redir") : last.adds[j].url = last.redirect
    /\ last.redirect = NoURL =>
          /\ AddsFor("redir") = {}
          /\ last.err # "" =>
                /\ last.records = << [URL |-> last.url, Error |-> last.err,
                                      Code |-> last.code, Redir |-> NoURL] >>
                /\ last.adds = << >>
                /\ ~last.ret

\* C16 witness: the attempt before captured a redirect, this one captured none
\* and failed at transport level: its record carries the error and no target.
C16_Witness ==
  /\ last.w # 0
  /\ last.old = <<"/", "d", "/">>
  /\ last.redirect = NoURL
  /\ last.err = "net"
  /\ last.records[1].Error = "net" /\ last.records[1].Redir = NoURL
  /\ last.kind # "raw"

\* The calls of adder made in the last call of TryURL.
LastEnqueues == Len(last.adds) + last.links

\* C19: every call of adder caused by a dequeued URL (the directory referral,
\* the redirect referral, the links enqueued inside Handle) is made while that
\* URL is being handled, before its done(1); so the completion counter (plus
\* one per enqueue, minus one per done) is above zero whenever a worker is
\* still handling a URL, and is zero only when the queue is empty and no
\* worker can enqueue any more.
C19_EnqueueBeforeDone ==
  /\ (last.w # 0 /\ LastEnqueues > 0) =>
        /\ pc[last.w] \in {"mangle", "ext", "done"}
        /\ task[last.w] # NoURL
        /\ counter >= 1 + LastEnqueues
  /\ Handling # {} => counter > 0
  /\ counter = queued + Cardinality(Handling)
  /\ counter = 0 => queued = 0 /\ \A i \in WorkerIds : pc[i] \notin {"raw", "mangle", "ext", "done"}

\* C19 witness: the attempt of the directory /d/ was spiderable and its body
\* was handed to the extractor, which enqueued one link: two calls of adder,
\* and the done(1) of /d/ is still to come.
C19_Witness ==
  /\ last.url = <<"/", "d", "/">> /\ last.kind = "raw"
  /\ last.adds = << [url |-> <<"/", "d", "/">>, cause |-> "dir"] >>
  /\ last.handled /\ last.links = 1
  /\ pc[last.w] = "done"
  /\ counter = 3 /\ queued = 2

\* C12: once the Work Source's stream is closed, every worker StartWorkers
\* creates eventually exits, with no stop request needed (every fetch returns,
\* the results are consumed); a worker that has observed the closed stream has
\* exited for good and never handles a URL afterwards.
C12_ClosedStreamStopsWorkers ==
  /\ srcClosed ~> (\A i \in WorkerIds : i <= settings.Workers => pc[i] = "exited")
  /\ [][\A i \in WorkerIds :
          /\ (pc[i] = "select" /\ srcClosed) => pc'[i] \in {"select", "exited"}
          /\ pc[i] = "exited" => pc'[i] = "exited"]_vars

\* C12 witness: the stream was closed after a URL had been handled, no Stop()
\* was ever called, and both workers of the pool have exited.
C12_Witness ==
  /\ srcClosed
  /\ settings.Workers = 2
  /\ \A i \in WorkerIds : pc[i] = "exited"
  /\ StopCalls = 0
  /\ doneTotal >= 1

\* C18: every call of Stop() on a handle returned by StartWorkers eventually
\* returns, also when the worker has already exited because the stream was
\* closed.
C18_StopReturns ==
  \A i \in WorkerIds : (stopBlocked[i] > 0) ~> (stopBlocked[i] = 0)

\* C20: whenever the transport returns no response with its error, whether
\* or not a redirect was captured during the attempt, TryURL reads nothing of
\* the absent response, sends exactly one Result Record and returns, and the
\* worker goes on towards its done(1).
C20_AbsentResponseNeverRead ==
  (last.w # 0 /\ ~last.resp /\ last.err # "") =>
    /\ ~last.panicked
    /\ Len(last.records) = 1
    /\ pc[last.w] \in {"mangle", "ext", "done"}

====
